---------------------------- MODULE Spec2Model ----------------------------
(***************************************************************************)
(* Model of server.py, the MCP adapter for the sc-stms-api staging API.    *)
(*                                                                         *)
(* Every tool is `with get_client() as client:` around one HTTP call whose *)
(* response goes through format_response.  The model keeps the clients     *)
(* that were ever created, the requests each invocation put on the wire,   *)
(* the upstream's answer, and what the invocation returned or raised.      *)
(*                                                                         *)
(* Python values: None is the record None; a caller-supplied str is        *)
(* Str(s); a dict is Dict(d) with d a function from keys to values; an int *)
(* is a number.  A response body (response.text) is Text(head, pad): the   *)
(* characters of head followed by pad copies of the letter "x", which lets *)
(* bodies longer than the truncation limits be enumerated.  The method     *)
(* argument of api_request is a sequence of characters, since upper()      *)
(* works on characters.                                                    *)
(***************************************************************************)
EXTENDS Integers, Sequences, FiniteSets, TLC

VARIABLES
    config,     \* STAGING_URL and STAGING_COOKIE, the module-level globals
    clients,    \* every httpx.Client constructed so far, in creation order
    pc,         \* per invocation slot: "idle", "open", "exiting", "done"
    call,       \* per slot: the tool and arguments of the running invocation
    client,     \* per slot: index in clients of the client bound by `with`
    sent,       \* per slot: the HTTP requests the invocation has issued
    response,   \* per slot: what the upstream answered (or that it failed)
    outcome,    \* per slot: the value returned, or the exception raised
    normIn,     \* a response handed to format_response on its own
    normOut     \* the envelope format_response made of normIn

vars == <<config, clients, pc, call, client, sent, response, outcome, normIn, normOut>>

-----------------------------------------------------------------------------
(* Bounds of the model *)

NumProcs == 2       \* invocation slots that may run at the same time
MaxClients == 3     \* clients constructed in one behaviour
MaxHead == 3        \* explicit characters of an enumerated response body

(* Program constants *)

RawTextLimit == 1000        \* response.text[:1000]
ReportTextLimit == 5000     \* response.text[:5000]

Procs == 1..NumProcs

-----------------------------------------------------------------------------
(* Python values *)

None == [t |-> "None"]
Str(s) == [t |-> "str", s |-> s]
Dict(d) == [t |-> "dict", d |-> d]
EmptyDict == Dict(<<>>)

\* bool(v) for the values the tools test: None, a str, a dict
Truthy(v) ==
    CASE v.t = "None" -> FALSE
      [] v.t = "str"  -> v.s # ""
      [] v.t = "dict" -> DOMAIN v.d # {}
      [] OTHER        -> TRUE

\* d with key k set to v: payload[k] = v
SetItem(d, k, v) == [x \in (DOMAIN d) \cup {k} |-> IF x = k THEN v ELSE d[x]]

-----------------------------------------------------------------------------
(* Response bodies *)

Text(head, pad) == [head |-> head, pad |-> pad]
TextLen(x) == Len(x.head) + x.pad

\* x[:n]
Slice(x, n) ==
    IF n <= Len(x.head)
    THEN Text(SubSeq(x.head, 1, n), 0)
    ELSE Text(x.head, IF x.pad <= n - Len(x.head) THEN x.pad ELSE n - Len(x.head))

\* The characters a decoder sees.  The decoder stops at the first "x", which
\* starts no JSON token, so one "x" after the head decides how decoding ends.
Chars(x) == IF x.pad = 0 THEN x.head ELSE x.head \o <<"x">>

-----------------------------------------------------------------------------
(* response.json(): json.loads as CPython's decoder scans it *)

IsDigit(c) == c = "1"
DigitVal(c) == IF c = "1" THEN 1 ELSE 0

RECURSIVE DigitsEnd(_, _)
\* the index after the run of digits starting at i
DigitsEnd(s, i) == IF i <= Len(s) /\ IsDigit(s[i]) THEN DigitsEnd(s, i + 1) ELSE i

RECURSIVE IntOf(_, _, _)
\* int() of the digits s[i..j-1]
IntOf(s, i, j) == IF i >= j THEN 0 ELSE IntOf(s, i, j - 1) * 10 + DigitVal(s[j - 1])

Scanned(v, end) == [ok |-> TRUE, value |-> v, end |-> end]
ScanError(msg) == [ok |-> FALSE, msg |-> msg]

RECURSIVE scan_once(_, _)
\* One value starting at index i: the value and the index after it.
scan_once(s, i) ==
    IF i > Len(s) THEN ScanError("Expecting value")
    ELSE IF s[i] = "[" THEN
        IF i + 1 <= Len(s) /\ s[i + 1] = "]"
        THEN Scanned([t |-> "list", items |-> <<>>], i + 2)
        ELSE LET item == scan_once(s, i + 1) IN
             IF ~item.ok THEN ScanError("Expecting value")
             ELSE IF item.end <= Len(s) /\ s[item.end] = "]"
                  THEN Scanned([t |-> "list", items |-> <<item.value>>], item.end + 1)
                  ELSE ScanError("Expecting ',' delimiter")
    ELSE IF s[i] = "N" /\ i + 2 <= Len(s) /\ s[i + 1] = "a" /\ s[i + 2] = "N"
        THEN Scanned([t |-> "float", f |-> "nan"], i + 3)
    ELSE IF IsDigit(s[i])
        THEN Scanned([t |-> "int", v |-> IntOf(s, i, DigitsEnd(s, i))], DigitsEnd(s, i))
    ELSE ScanError("Expecting value")

\* json.loads: one value, then nothing more
json_loads(s) ==
    LET r == scan_once(s, 1) IN
    IF ~r.ok THEN r
    ELSE IF r.end <= Len(s) THEN ScanError("Extra data")
    ELSE r

-----------------------------------------------------------------------------
(* format_response *)

format_response_by_status(r) ==
    LET parsed == json_loads(Chars(r.text)) IN
    IF parsed.ok /\ r.status_code < 400
    THEN [status_code |-> r.status_code, data |-> parsed.value]
    ELSE [status_code |-> r.status_code,
          error |-> IF parsed.ok THEN "HTTP error" ELSE parsed.msg,
          raw_text |-> IF TextLen(r.text) # 0 THEN Slice(r.text, RawTextLimit) ELSE None]

format_response(r) ==
    LET parsed == json_loads(Chars(r.text)) IN
    IF parsed.ok
    THEN [status_code |-> r.status_code, data |-> parsed.value]
    ELSE [status_code |-> r.status_code,
          error |-> parsed.msg,
          raw_text |-> IF TextLen(r.text) # 0 THEN Slice(r.text, RawTextLimit) ELSE None]

-----------------------------------------------------------------------------
(* The client: get_client, and the calls a tool makes on it *)

\* httpx.Client(base_url=STAGING_URL, headers={...}, timeout=30.0, verify=True)
get_client ==
    [base_url |-> config.STAGING_URL,
     headers |-> [h \in {"Cookie", "Content-Type", "Accept"} |->
                    IF h = "Cookie" THEN config.STAGING_COOKIE ELSE "application/json"],
     timeout |-> 30,
     verify |-> TRUE,
     state |-> "open"]

\* client.get(path, headers=...), client.post(path, json=...), ...: the call as
\* the tool states it; json = None is a call made without a json argument.
Http(method, path, json, headers) ==
    [method |-> method, path |-> path, json |-> json, headers |-> headers]
NoHeaders == <<>>
client_get(path) == Http("GET", path, None, NoHeaders)
client_post(path, json) == Http("POST", path, json, NoHeaders)
client_put(path, json) == Http("PUT", path, json, NoHeaders)
client_delete(path) == Http("DELETE", path, None, NoHeaders)

\* What a tool does inside its `with` block: one HTTP call whose response goes
\* through `then` ("format_response", or "text" for the raw report text), or a
\* return with no call at all.
CallThen(request, then) == [kind |-> "call", request |-> request, then |-> then]
ReturnNow(value) == [kind |-> "return", value |-> value]
Formatted(request) == CallThen(request, "format_response")

-----------------------------------------------------------------------------
(* The tools *)

whoami == Formatted(client_get("/user/whoami"))

give_access_to_user_forwarding(idp_user_code, entity_type, entity_code, scope_type, scope_code) ==
    Formatted(client_post("/access-control/access-requests",
        Dict([action |-> Str("create"),
              idp_user_code |-> idp_user_code,
              entity |-> Dict([entity_type |-> entity_type, entity_code |-> entity_code]),
              scope |-> Dict([scope_type |-> scope_type, scope_code |-> scope_code]),
              reason |-> Str("Access granted by MCP server")])))

give_access_to_user(idp_user_code, entity_type, entity_code, scope_type, scope_code) ==
    Formatted(client_post("/access-control/access-requests",
        Dict([action |-> Str("create"),
              idp_user_code |-> idp_user_code,
              entity |-> Dict([entity_type |-> entity_type, entity_code |-> entity_code]),
              scope |-> Dict([scope_type |-> Str("default"), scope_code |-> None]),
              reason |-> Str("Access granted by MCP server")])))

get_user_profile(idp_user_code) ==
    Formatted(client_get("/user/" \o idp_user_code.s \o "/profile"))

get_user_by_code(idp_user_code) ==
    Formatted(client_post("/user/idp_user_code/", Dict([idp_user_code |-> idp_user_code])))

\* payload with key k added when `if v:` holds
IfSet(payload, k, v) == IF Truthy(v) THEN SetItem(payload, k, v) ELSE payload
IfNotNone(payload, k, v) == IF v # None THEN SetItem(payload, k, v) ELSE payload

list_users_is_not_none(facility_code, designation_code, search, page, page_size) ==
    LET p0 == [page |-> page, page_size |-> page_size]
        p1 == IfNotNone(p0, "facility_code", facility_code)
        p2 == IfNotNone(p1, "designation_code", designation_code)
        p3 == IfNotNone(p2, "search", search)
    IN  Formatted(client_post("/user/list", Dict(p3)))

list_users(facility_code, designation_code, search, page, page_size) ==
    LET p0 == [page |-> page, page_size |-> page_size]
        p1 == IfSet(p0, "facility_code", facility_code)
        p2 == IfSet(p1, "designation_code", designation_code)
        p3 == IfSet(p2, "search", search)
    IN  Formatted(client_post("/user/list", Dict(p3)))

get_user_permissions == Formatted(client_post("/access-control/users/permissions", EmptyDict))

get_user_access(idp_user_code) ==
    Formatted(client_post("/access-control/users/access", Dict([idp_user_code |-> idp_user_code])))

check_has_access(entity_type, entity_code, scope_type, scope_code) ==
    LET p0 == [entity_type |-> entity_type, entity_code |-> entity_code]
        p1 == IfSet(p0, "scope_type", scope_type)
        p2 == IfSet(p1, "scope_code", scope_code)
    IN  Formatted(client_post("/access-control/users/has-access", Dict(p2)))

get_flattened_permissions(idp_user_code) ==
    Formatted(client_post("/access-control/users/flattened-permissions",
                          Dict([idp_user_code |-> idp_user_code])))

get_pending_access_requests ==
    Formatted(client_post("/access-control/users/approver/pending/access-requests", EmptyDict))

get_access_request_history(idp_user_code, status, page, page_size) ==
    LET p0 == [page |-> page, page_size |-> page_size]
        p1 == IfSet(p0, "idp_user_code", idp_user_code)
        p2 == IfSet(p1, "status", status)
    IN  Formatted(client_post("/access-control/users/access-requests", Dict(p2)))

push_event(event_type, payload) ==
    Formatted(client_post("/events/push", Dict([event_type |-> event_type, payload |-> payload])))

trigger_cdm_sync == Formatted(client_post("/trigger_cdm_id_sync", EmptyDict))

get_dropdowns == Formatted(client_get("/dropdowns"))

list_shifts(facility_code, shift_type, page, page_size) ==
    LET p0 == [page |-> page, page_size |-> page_size]
        p1 == IfSet(p0, "facility_code", facility_code)
        p2 == IfSet(p1, "shift_type", shift_type)
    IN  Formatted(client_post("/shifts", Dict(p2)))

get_roster(facility_code, start_date, end_date, designation_code) ==
    LET p0 == [facility_code |-> facility_code, start_date |-> start_date, end_date |-> end_date]
        p1 == IfSet(p0, "designation_code", designation_code)
    IN  Formatted(client_post("/roster", Dict(p1)))

list_reports == Formatted(client_get("/reports"))

get_report_always_formatted(report_name, format) ==
    LET h0 == NoHeaders
        h1 == IF format = Str("csv") THEN SetItem(h0, "Accept", "text/csv")
              ELSE IF format = Str("tsv") THEN SetItem(h0, "Accept", "text/tab-separated-values")
              ELSE h0
        request == Http("GET", "/reports/" \o report_name.s, None, h1)
    IN  Formatted(request)

get_report(report_name, format) ==
    LET h0 == NoHeaders
        h1 == IF format = Str("csv") THEN SetItem(h0, "Accept", "text/csv")
              ELSE IF format = Str("tsv") THEN SetItem(h0, "Accept", "text/tab-separated-values")
              ELSE h0
        request == Http("GET", "/reports/" \o report_name.s, None, h1)
    IN  IF format \in {Str("csv"), Str("tsv")}
        THEN CallThen(request, "text")
        ELSE Formatted(request)

get_onboarding_tasks(facility_code, status, page, page_size) ==
    LET p0 == [page |-> page, page_size |-> page_size]
        p1 == IfSet(p0, "facility_code", facility_code)
        p2 == IfSet(p1, "status", status)
    IN  Formatted(client_post("/dashboard/onboarding/tasks", Dict(p2)))

get_offboarding_tasks(facility_code, status, page, page_size) ==
    LET p0 == [page |-> page, page_size |-> page_size]
        p1 == IfSet(p0, "facility_code", facility_code)
        p2 == IfSet(p1, "status", status)
    IN  Formatted(client_post("/dashboard/offboarding/tasks", Dict(p2)))

health_check == Formatted(client_get("/public/hc"))

\* str.upper(), character by character, on the letters the model draws from
UpperChar(c) ==
    CASE c = "a" -> "A" [] c = "c" -> "C" [] c = "d" -> "D" [] c = "e" -> "E"
      [] c = "g" -> "G" [] c = "h" -> "H" [] c = "l" -> "L" [] c = "o" -> "O"
      [] c = "p" -> "P" [] c = "s" -> "S" [] c = "t" -> "T" [] c = "u" -> "U"
      [] OTHER -> c
upper(s) == [i \in DOMAIN s |-> UpperChar(s[i])]

RECURSIVE Join(_)
\* the str made of the characters of s
Join(s) == IF s = <<>> THEN "" ELSE Head(s) \o Join(Tail(s))

\* body or {}
OrEmptyDict(body) == IF Truthy(body) THEN body ELSE EmptyDict

api_request_body_always(method, path, body) ==
    LET m == upper(method) IN
    IF m = <<"G", "E", "T">> THEN Formatted(client_get(path))
    ELSE IF m = <<"P", "O", "S", "T">> THEN Formatted(client_post(path, OrEmptyDict(body)))
    ELSE IF m = <<"P", "U", "T">> THEN Formatted(client_put(path, OrEmptyDict(body)))
    ELSE IF m = <<"D", "E", "L", "E", "T", "E">>
        THEN Formatted(Http("DELETE", path, OrEmptyDict(body), NoHeaders))
    ELSE ReturnNow([error |-> "Unsupported method: " \o Join(m)])

api_request_no_upper(method, path, body) ==
    LET m == method IN
    IF m = <<"G", "E", "T">> THEN Formatted(client_get(path))
    ELSE IF m = <<"P", "O", "S", "T">> THEN Formatted(client_post(path, OrEmptyDict(body)))
    ELSE IF m = <<"P", "U", "T">> THEN Formatted(client_put(path, OrEmptyDict(body)))
    ELSE IF m = <<"D", "E", "L", "E", "T", "E">> THEN Formatted(client_delete(path))
    ELSE ReturnNow([error |-> "Unsupported method: " \o Join(m)])

api_request(method, path, body) ==
    LET m == upper(method) IN
    IF m = <<"G", "E", "T">> THEN Formatted(client_get(path))
    ELSE IF m = <<"P", "O", "S", "T">> THEN Formatted(client_post(path, OrEmptyDict(body)))
    ELSE IF m = <<"P", "U", "T">> THEN Formatted(client_put(path, OrEmptyDict(body)))
    ELSE IF m = <<"D", "E", "L", "E", "T", "E">> THEN Formatted(client_delete(path))
    ELSE ReturnNow([error |-> "Unsupported method: " \o Join(m)])

-----------------------------------------------------------------------------
(* Invocations: the MCP runtime calls a registered tool with its arguments *)

Call(tool, args) == [tool |-> tool, args |-> args]
NoCall == [tool |-> "none"]

\* The body of the tool's `with` block for invocation c
Handler(c) ==
    LET a == c.args IN
    CASE c.tool = "whoami" -> whoami
      [] c.tool = "give_access_to_user" ->
            give_access_to_user(a.idp_user_code, a.entity_type, a.entity_code,
                                a.scope_type, a.scope_code)
      [] c.tool = "get_user_profile" -> get_user_profile(a.idp_user_code)
      [] c.tool = "get_user_by_code" -> get_user_by_code(a.idp_user_code)
      [] c.tool = "list_users" ->
            list_users(a.facility_code, a.designation_code, a.search, a.page, a.page_size)
      [] c.tool = "get_user_permissions" -> get_user_permissions
      [] c.tool = "get_user_access" -> get_user_access(a.idp_user_code)
      [] c.tool = "check_has_access" ->
            check_has_access(a.entity_type, a.entity_code, a.scope_type, a.scope_code)
      [] c.tool = "get_flattened_permissions" -> get_flattened_permissions(a.idp_user_code)
      [] c.tool = "get_pending_access_requests" -> get_pending_access_requests
      [] c.tool = "get_access_request_history" ->
            get_access_request_history(a.idp_user_code, a.status, a.page, a.page_size)
      [] c.tool = "push_event" -> push_event(a.event_type, a.payload)
      [] c.tool = "trigger_cdm_sync" -> trigger_cdm_sync
      [] c.tool = "get_dropdowns" -> get_dropdowns
      [] c.tool = "list_shifts" ->
            list_shifts(a.facility_code, a.shift_type, a.page, a.page_size)
      [] c.tool = "get_roster" ->
            get_roster(a.facility_code, a.start_date, a.end_date, a.designation_code)
      [] c.tool = "list_reports" -> list_reports
      [] c.tool = "get_report" -> get_report(a.report_name, a.format)
      [] c.tool = "get_onboarding_tasks" ->
            get_onboarding_tasks(a.facility_code, a.status, a.page, a.page_size)
      [] c.tool = "get_offboarding_tasks" ->
            get_offboarding_tasks(a.facility_code, a.status, a.page, a.page_size)
      [] c.tool = "health_check" -> health_check
      [] c.tool = "api_request" -> api_request(a.method, a.path, a.body)

\* get_report's return for csv and tsv: the raw text, cut
report_text(r) == [status_code |-> r.status_code, data |-> Slice(r.text, ReportTextLimit)]

\* The value the tool returns once the call has answered with r
ReturnValue(then, r) == IF then = "text" THEN report_text(r) ELSE format_response(r)

-----------------------------------------------------------------------------
(* The upstream and the wire *)

Response(status_code, text) == [kind |-> "response", status_code |-> status_code, text |-> text]
Failure == [kind |-> "failure"]     \* DNS, connect, timeout, TLS: the call raises
NoResponse == [kind |-> "none"]

\* The request a client puts on the wire: its base URL and default headers,
\* the call's own headers over them.
Wire(cl, rq) ==
    [method |-> rq.method,
     base_url |-> cl.base_url,
     path |-> rq.path,
     headers |-> [h \in (DOMAIN cl.headers) \cup (DOMAIN rq.headers) |->
                    IF h \in DOMAIN rq.headers THEN rq.headers[h] ELSE cl.headers[h]],
     json |-> rq.json]

Returned(v) == [kind |-> "return", value |-> v]
Raised(e) == [kind |-> "raise", exc |-> e]
NoOutcome == [kind |-> "none"]

-----------------------------------------------------------------------------
(* `with get_client() as client:` *)

\* A module-level client handed to every invocation
with_shared_client(cs) ==
    IF cs = <<>> THEN [clients |-> <<get_client>>, id |-> 1] ELSE [clients |-> cs, id |-> 1]

\* Entering: a client is constructed and bound
with_get_client(cs) == [clients |-> Append(cs, get_client), id |-> Len(cs) + 1]

\* Leaving only by the return statement closes the client
exit_on_return(cl, out) == IF out.kind = "return" THEN [cl EXCEPT !.state = "closed"] ELSE cl

\* Leaving, by return or by exception: Client.__exit__ closes the client
with_exit(cl, out) == [cl EXCEPT !.state = "closed"]

-----------------------------------------------------------------------------
(* Inputs *)

RequiredStrs == {Str(""), Str("u1")}
OptionalStrs == {None, Str(""), Str("f1")}
Paging == {<<1, 20>>, <<2, 10>>}        \* page, page_size
Methods ==
    { <<"G", "E", "T">>, <<"g", "e", "t">>, <<"P", "O", "S", "T">>, <<"P", "o", "s", "t">>,
      <<"P", "U", "T">>, <<"p", "u", "t">>, <<"D", "E", "L", "E", "T", "E">>,
      <<"d", "e", "l", "e", "t", "e">>, <<"P", "A", "T", "C", "H">>,
      <<"p", "a", "t", "c", "h">>, <<"h", "e", "a", "d">>, <<>> }
Bodies == {None, EmptyDict, Dict([k |-> Str("v")])}
Formats == {Str("json"), Str("csv"), Str("tsv"), Str("CSV"), Str("xml"), Str("")}

PagedCalls(tool, first, second) ==
    { Call(tool, (first :> a) @@ (second :> b) @@ [page |-> pg[1], page_size |-> pg[2]]) :
        a \in OptionalStrs, b \in OptionalStrs, pg \in Paging }

Calls ==
    { Call(t, <<>>) : t \in {"whoami", "get_user_permissions", "get_pending_access_requests",
                             "trigger_cdm_sync", "get_dropdowns", "list_reports",
                             "health_check"} }
    \cup { Call(t, [idp_user_code |-> u]) :
            t \in {"get_user_profile", "get_user_by_code", "get_user_access",
                   "get_flattened_permissions"}, u \in RequiredStrs }
    \cup { Call("give_access_to_user",
                [idp_user_code |-> u, entity_type |-> Str("role"), entity_code |-> e,
                 scope_type |-> st, scope_code |-> sc]) :
            u \in RequiredStrs, e \in RequiredStrs,
            st \in {Str("default"), Str("facility")}, sc \in {None, Str("f1")} }
    \cup { Call("list_users",
                [facility_code |-> f, designation_code |-> d, search |-> s,
                 page |-> pg[1], page_size |-> pg[2]]) :
            f \in OptionalStrs, d \in OptionalStrs, s \in OptionalStrs, pg \in Paging }
    \cup { Call("check_has_access",
                [entity_type |-> et, entity_code |-> ec, scope_type |-> st, scope_code |-> sc]) :
            et \in RequiredStrs, ec \in RequiredStrs, st \in OptionalStrs, sc \in OptionalStrs }
    \cup PagedCalls("get_access_request_history", "idp_user_code", "status")
    \cup PagedCalls("list_shifts", "facility_code", "shift_type")
    \cup PagedCalls("get_onboarding_tasks", "facility_code", "status")
    \cup PagedCalls("get_offboarding_tasks", "facility_code", "status")
    \cup { Call("get_roster",
                [facility_code |-> f, start_date |-> Str("2024-01-01"),
                 end_date |-> e, designation_code |-> d]) :
            f \in RequiredStrs, e \in {Str("2024-01-31"), Str("")}, d \in OptionalStrs }
    \cup { Call("push_event", [event_type |-> e, payload |-> b]) :
            e \in RequiredStrs, b \in {EmptyDict, Dict([k |-> Str("v")])} }
    \cup { Call("get_report", [report_name |-> n, format |-> f]) :
            n \in {Str("r1"), Str("")}, f \in Formats }
    \cup { Call("api_request", [method |-> m, path |-> pa, body |-> b]) :
            m \in Methods, pa \in {"/x", "/user/list"}, b \in Bodies }

\* Bodies the upstream answers a tool with: empty, JSON, the literal NaN, plain
\* text, and texts around the two truncation limits
ToolTexts ==
    { Text(<<>>, 0), Text(<<"1">>, 0), Text(<<"[", "1", "]">>, 0), Text(<<"N", "a", "N">>, 0),
      Text(<<"a">>, 0) }
    \cup { Text(<<"a">>, n) : n \in {RawTextLimit - 1, RawTextLimit,
                                     ReportTextLimit - 1, ReportTextLimit} }
Upstream == { Response(sc, x) : sc \in {200, 404}, x \in ToolTexts } \cup {Failure}

\* The smaller inputs of the runs in which invocations overlap
ConcCalls ==
    { Call("whoami", <<>>),
      Call("get_report", [report_name |-> Str("r1"), format |-> Str("csv")]),
      Call("api_request", [method |-> <<"p", "a", "t", "c", "h">>, path |-> "/x", body |-> None]),
      Call("api_request", [method |-> <<"P", "o", "s", "t">>, path |-> "/x", body |-> None]) }
ConcUpstream == { Response(200, Text(<<"1">>, 0)), Response(500, Text(<<"a">>, 0)), Failure }

Alphabet == {"1", "[", "]", "N", "a"}
Heads == UNION { [1..n -> Alphabet] : n \in 0..MaxHead }
NormResponses ==
    { Response(sc, Text(h, n)) :
        sc \in {200, 404, 500}, h \in Heads,
        n \in {0} \cup ((RawTextLimit - MaxHead - 1)..(RawTextLimit + 1)) }

Configs ==
    { [STAGING_URL |-> "https://stms-api.noonstg.partners", STAGING_COOKIE |-> c] :
        c \in {"", "sid=1"} }

-----------------------------------------------------------------------------
(* Actions *)

\* The runtime calls tool c in slot p; the handler enters its `with` block.
Invoke(p, c) ==
    /\ pc[p] = "idle"
    /\ Len(clients) < MaxClients
    /\ LET got == with_get_client(clients) IN
        /\ clients' = got.clients
        /\ client' = [client EXCEPT ![p] = got.id]
    /\ call' = [call EXCEPT ![p] = c]
    /\ pc' = [pc EXCEPT ![p] = "open"]
    /\ UNCHANGED <<config, sent, response, outcome, normIn, normOut>>

\* api_request's else branch: return without a call
Reject(p) ==
    /\ pc[p] = "open"
    /\ Handler(call[p]).kind = "return"
    /\ outcome' = [outcome EXCEPT ![p] = Returned(Handler(call[p]).value)]
    /\ pc' = [pc EXCEPT ![p] = "exiting"]
    /\ UNCHANGED <<config, clients, call, client, sent, response, normIn, normOut>>

\* The one HTTP call of the handler, answered by the upstream with up, and the
\* return statement after it.  A closed client refuses to send.
HttpCall(p, up) ==
    /\ pc[p] = "open"
    /\ Handler(call[p]).kind = "call"
    /\ LET h == Handler(call[p])
           cl == clients[client[p]]
       IN  IF cl.state # "open"
           THEN /\ outcome' = [outcome EXCEPT ![p] = Raised("RuntimeError")]
                /\ UNCHANGED <<sent, response>>
           ELSE /\ sent' = [sent EXCEPT ![p] = Append(@, Wire(cl, h.request))]
                /\ response' = [response EXCEPT ![p] = up]
                /\ outcome' = [outcome EXCEPT ![p] =
                        IF up.kind = "failure" THEN Raised("TransportError")
                        ELSE Returned(ReturnValue(h.then, up))]
    /\ pc' = [pc EXCEPT ![p] = "exiting"]
    /\ UNCHANGED <<config, clients, call, client, normIn, normOut>>

\* The `with` block is left: the client is closed and the caller gets the outcome.
Exit(p) ==
    /\ pc[p] = "exiting"
    /\ clients' = [clients EXCEPT ![client[p]] = with_exit(@, outcome[p])]
    /\ pc' = [pc EXCEPT ![p] = "done"]
    /\ UNCHANGED <<config, call, client, sent, response, outcome, normIn, normOut>>

\* The slot is free for the next invocation; nothing of the last one is kept.
Release(p) ==
    /\ pc[p] = "done"
    /\ pc' = [pc EXCEPT ![p] = "idle"]
    /\ call' = [call EXCEPT ![p] = NoCall]
    /\ client' = [client EXCEPT ![p] = 0]
    /\ sent' = [sent EXCEPT ![p] = <<>>]
    /\ response' = [response EXCEPT ![p] = NoResponse]
    /\ outcome' = [outcome EXCEPT ![p] = NoOutcome]
    /\ UNCHANGED <<config, clients, normIn, normOut>>

\* format_response applied to a response on its own
Normalize ==
    /\ normOut = NoOutcome
    /\ normIn # NoResponse
    /\ normOut' = Returned(format_response(normIn))
    /\ UNCHANGED <<config, clients, pc, call, client, sent, response, outcome, normIn>>

-----------------------------------------------------------------------------
(* Specifications *)

InitSlots ==
    /\ config \in Configs
    /\ clients = <<>>
    /\ pc = [p \in Procs |-> "idle"]
    /\ call = [p \in Procs |-> NoCall]
    /\ client = [p \in Procs |-> 0]
    /\ sent = [p \in Procs |-> <<>>]
    /\ response = [p \in Procs |-> NoResponse]
    /\ outcome = [p \in Procs |-> NoOutcome]

Init == InitSlots /\ normIn = NoResponse /\ normOut = NoOutcome

\* The runtime runs a synchronous tool to its end before it takes the next
\* call: one slot, every tool and argument.
Next ==
    \/ \E c \in Calls : Invoke(1, c)
    \/ Reject(1)
    \/ \E up \in Upstream : HttpCall(1, up)
    \/ Exit(1)
    \/ Release(1)

Spec == Init /\ [][Next]_vars

\* A runtime that dispatches invocations concurrently: the slots interleave.
NextConc ==
    \E p \in Procs :
        \/ \E c \in ConcCalls : Invoke(p, c)
        \/ Reject(p)
        \/ \E up \in ConcUpstream : HttpCall(p, up)
        \/ Exit(p)
        \/ Release(p)

SpecConc == Init /\ [][NextConc]_vars

\* format_response as a function of the response alone
InitNorm == InitSlots /\ normIn \in NormResponses /\ normOut = NoOutcome

NextNorm == Normalize

SpecNorm == InitNorm /\ [][NextNorm]_vars

-----------------------------------------------------------------------------
(* Properties *)

\* The invocation in slot p has left its handler's call behind
Past(p) == pc[p] \in {"exiting", "done"}

SupportedVerbs ==
    { <<"G", "E", "T">>, <<"P", "O", "S", "T">>, <<"P", "U", "T">>,
      <<"D", "E", "L", "E", "T", "E">> }

IsApiRequest(p) == call[p].tool = "api_request"

\* C1: api_request with a method that, upper-cased, is none of GET, POST, PUT,
\* DELETE issues no HTTP call and returns exactly
\* {error: "Unsupported method: <upper-cased method>"}, whatever path and body.
C1_UnsupportedMethod ==
    \A p \in Procs :
        (Past(p) /\ IsApiRequest(p) /\ upper(call[p].args.method) \notin SupportedVerbs) =>
            /\ sent[p] = <<>>
            /\ response[p] = NoResponse
            /\ outcome[p] =
                 Returned([error |-> "Unsupported method: " \o Join(upper(call[p].args.method))])
            /\ (call[p].args.method = <<"p", "a", "t", "c", "h">> =>
                    outcome[p].value = [error |-> "Unsupported method: PATCH"])

C1_Witness ==
    /\ pc[1] = "done"
    /\ IsApiRequest(1)
    /\ call[1].args.method = <<"p", "a", "t", "c", "h">>
    /\ call[1].args.body # None
    /\ outcome[1] = Returned([error |-> "Unsupported method: PATCH"])
    /\ sent[1] = <<>>

\* C2: api_request with GET, POST, PUT or DELETE in any letter case issues
\* exactly one HTTP call, with the upper-cased verb and the given path; GET and
\* DELETE transmit no body whatever body was supplied; POST and PUT transmit the
\* supplied body if present, else an empty mapping.
C2_SupportedMethod ==
    \A p \in Procs :
        /\ Len(sent[p]) <= 1
        /\ (Past(p) /\ IsApiRequest(p) /\ upper(call[p].args.method) \in SupportedVerbs) =>
            /\ Len(sent[p]) = 1
            /\ LET a == call[p].args
                   verb == Join(upper(a.method))
                   rq == sent[p][1]
               IN  /\ rq.method = verb
                   /\ rq.path = a.path
                   /\ verb \in {"GET", "DELETE"} => rq.json = None
                   /\ verb \in {"POST", "PUT"} =>
                        rq.json = IF a.body = None THEN EmptyDict ELSE a.body

C2_Witness ==
    /\ pc[1] = "done"
    /\ IsApiRequest(1)
    /\ call[1].args.method = <<"d", "e", "l", "e", "t", "e">>
    /\ call[1].args.body = Dict([k |-> Str("v")])
    /\ Len(sent[1]) = 1
    /\ sent[1][1].method = "DELETE"
    /\ sent[1][1].json = None

\* JSON as RFC 8259 defines it, over the alphabet of the enumerated bodies: a
\* number, or an array of at most one value (the alphabet has no comma).
IsJsonNumber(s) == s # <<>> /\ \A i \in DOMAIN s : s[i] = "1"

RECURSIVE IsJsonValue(_)
IsJsonValue(s) ==
    \/ IsJsonNumber(s)
    \/ /\ Len(s) >= 2
       /\ s[1] = "["
       /\ s[Len(s)] = "]"
       /\ (Len(s) = 2 \/ IsJsonValue(SubSeq(s, 2, Len(s) - 1)))

ValidJSON(x) == x.pad = 0 /\ IsJsonValue(x.head)

RECURSIVE Repunit(_)
Repunit(n) == IF n = 0 THEN 0 ELSE 10 * Repunit(n - 1) + 1

RECURSIVE JsonDenotes(_)
\* the value a valid JSON text stands for
JsonDenotes(s) ==
    IF IsJsonNumber(s) THEN [t |-> "int", v |-> Repunit(Len(s))]
    ELSE IF Len(s) = 2 THEN [t |-> "list", items |-> <<>>]
    ELSE [t |-> "list", items |-> <<JsonDenotes(SubSeq(s, 2, Len(s) - 1))>>]

Normalized == normOut # NoOutcome

C4_NonJsonBodyIsError ==
    (Normalized /\ ~ValidJSON(normIn.text)) =>
        /\ DOMAIN normOut.value = {"status_code", "error", "raw_text"}
        /\ normOut.value.status_code = normIn.status_code
        /\ normOut.value.error # ""
        /\ normOut.value.raw_text =
             IF TextLen(normIn.text) = 0 THEN None
             ELSE IF TextLen(normIn.text) <= RawTextLimit THEN normIn.text
             ELSE Text(normIn.text.head, RawTextLimit - Len(normIn.text.head))

\* C4 on the bodies the decoder rejects (every body that is not valid JSON but
\* those made of the literal NaN, which json.loads takes for a float): the error
\* envelope is as C4 says.
C4_RejectedBodyIsError ==
    (Normalized /\ ~json_loads(Chars(normIn.text)).ok) =>
        /\ ~ValidJSON(normIn.text)
        /\ DOMAIN normOut.value = {"status_code", "error", "raw_text"}
        /\ normOut.value.status_code = normIn.status_code
        /\ normOut.value.error # ""
        /\ normOut.value.raw_text =
             IF TextLen(normIn.text) = 0 THEN None
             ELSE IF TextLen(normIn.text) <= RawTextLimit THEN normIn.text
             ELSE Text(normIn.text.head, RawTextLimit - Len(normIn.text.head))

Parses(r) == json_loads(Chars(r.text)).ok

IsRawReport(c) == c.tool = "get_report" /\ c.args.format \in {Str("csv"), Str("tsv")}
IsRejected(c) == c.tool = "api_request" /\ upper(c.args.method) \notin SupportedVerbs

\* The envelope: status_code, and either data alone or error with raw_text
IsEnvelope(v) ==
    /\ "status_code" \in DOMAIN v
    /\ \/ DOMAIN v = {"status_code", "data"}
       \/ DOMAIN v = {"status_code", "error", "raw_text"}

\* C5, as stated: every result returned by every tool has the envelope shape,
\* status_code with exactly one of data or error (with raw_text), chosen by
\* whether the response body parses as JSON.
C5_EveryResultIsEnvelope ==
    \A p \in Procs :
        (Past(p) /\ outcome[p].kind = "return") =>
            /\ IsEnvelope(outcome[p].value)
            /\ response[p] # NoResponse
            /\ ("data" \in DOMAIN outcome[p].value) <=> Parses(response[p])

\* C5, amended: the results of the tools that go through format_response (all
\* but get_report with csv or tsv, and api_request with an unsupported method)
\* have the envelope shape, chosen by whether the body parses; get_report with
\* csv or tsv returns status_code and data whether or not the body parses;
\* api_request with an unsupported method returns error alone.
C5_ResultShapes ==
    \A p \in Procs :
        (Past(p) /\ outcome[p].kind = "return") =>
            LET v == outcome[p].value IN
            IF IsRejected(call[p]) THEN DOMAIN v = {"error"}
            ELSE /\ response[p] # NoResponse
                 /\ v.status_code = response[p].status_code
                 /\ IF IsRawReport(call[p])
                    THEN DOMAIN v = {"status_code", "data"}
                    ELSE /\ IsEnvelope(v)
                         /\ ("data" \in DOMAIN v) <=> Parses(response[p])

C5_Witness ==
    /\ pc[1] = "done"
    /\ IsRawReport(call[1])
    /\ outcome[1].kind = "return"
    /\ ~Parses(response[1])
    /\ DOMAIN outcome[1].value = {"status_code", "data"}

Active(p) == pc[p] \in {"open", "exiting"}

\* C6: every invocation releases the client it acquired on every exit path
\* (normal return, api_request's unsupported-method return, an exception of the
\* HTTP call); no client made by a finished invocation remains open.
C6_ClientsReleased ==
    /\ \A p \in Procs : pc[p] = "done" => clients[client[p]].state = "closed"
    /\ \A i \in DOMAIN clients :
            clients[i].state = "open" => \E p \in Procs : Active(p) /\ client[p] = i

\* Three clients, all closed: one of an invocation that is gone, one of an
\* invocation whose HTTP call raised, one of a rejected api_request.
C6_Witness ==
    /\ Len(clients) = 3
    /\ \A i \in DOMAIN clients : clients[i].state = "closed"
    /\ \E p, q \in Procs :
        /\ pc[p] = "done" /\ outcome[p] = Raised("TransportError")
        /\ pc[q] = "done" /\ IsRejected(call[q]) /\ outcome[q].kind = "return"

\* What invocation c does when it runs alone against an upstream answering up:
\* the requests it sends and how it ends
Alone(c, up) ==
    LET h == Handler(c) IN
    IF h.kind = "return" THEN [sent |-> <<>>, outcome |-> Returned(h.value)]
    ELSE [sent |-> <<Wire(get_client, h.request)>>,
          outcome |-> IF up.kind = "failure" THEN Raised("TransportError")
                      ELSE Returned(ReturnValue(h.then, up))]

C7_Isolated ==
    /\ \A p, q \in Procs :
            (p # q /\ pc[p] # "idle" /\ pc[q] # "idle") => client[p] # client[q]
    /\ \A p \in Procs :
            Past(p) =>
                /\ Handler(call[p]).kind = "call" => response[p] # NoResponse
                /\ sent[p] = Alone(call[p], response[p]).sent
                /\ outcome[p] = Alone(call[p], response[p]).outcome

\* C7: concurrent invocations each create and use a client of their own, the
\* configuration is never modified after start, and under every interleaving
\* each invocation's request and result are those of the invocation run alone
\* against the same upstream responses.
C7_Independent == []C7_Isolated /\ [][config' = config]_vars

\* Two overlapping invocations, both past their HTTP call, neither yet out of
\* its `with` block
C7_Witness ==
    /\ pc[1] = "exiting" /\ pc[2] = "exiting"
    /\ call[1].tool = "get_report" /\ call[2].tool = "api_request"
    /\ Len(sent[1]) = 1 /\ Len(sent[2]) = 1
    /\ client[1] # client[2]
    /\ clients[client[1]].state = "open" /\ clients[client[2]].state = "open"
    /\ outcome[1].kind = "return" /\ outcome[2].kind = "return"

\* The optional-filter tools, with their optional and their always-sent parameters
FilterTools ==
    {"list_users", "check_has_access", "get_access_request_history", "list_shifts",
     "get_roster", "get_onboarding_tasks", "get_offboarding_tasks"}

OptionalParams(tool) ==
    CASE tool = "list_users" -> {"facility_code", "designation_code", "search"}
      [] tool = "check_has_access" -> {"scope_type", "scope_code"}
      [] tool = "get_access_request_history" -> {"idp_user_code", "status"}
      [] tool = "list_shifts" -> {"facility_code", "shift_type"}
      [] tool = "get_roster" -> {"designation_code"}
      [] tool = "get_onboarding_tasks" -> {"facility_code", "status"}
      [] tool = "get_offboarding_tasks" -> {"facility_code", "status"}

AlwaysParams(tool) ==
    CASE tool = "check_has_access" -> {"entity_type", "entity_code"}
      [] tool = "get_roster" -> {"facility_code", "start_date", "end_date"}
      [] OTHER -> {"page", "page_size"}

\* C8: the payload of an optional-filter tool has a key for an optional
\* parameter exactly when the parameter was given a non-empty value, never with
\* a null or empty value; the required and paging fields are always there, with
\* the caller's values.
C8_OptionalFilters ==
    \A p \in Procs :
        (Past(p) /\ call[p].tool \in FilterTools) =>
            /\ Len(sent[p]) = 1
            /\ sent[p][1].json.t = "dict"
            /\ LET a == call[p].args
                   d == sent[p][1].json.d
                   opt == OptionalParams(call[p].tool)
                   req == AlwaysParams(call[p].tool)
               IN  /\ DOMAIN d \subseteq opt \cup req
                   /\ \A k \in opt :
                        /\ (k \in DOMAIN d) <=> (a[k] # None /\ a[k] # Str(""))
                        /\ (k \in DOMAIN d) => (d[k] = a[k] /\ d[k] # None /\ d[k] # Str(""))
                   /\ \A k \in req : k \in DOMAIN d /\ d[k] = a[k]

\* list_users(page=2, page_size=10) with an empty facility_code and nothing else
C8_Witness ==
    /\ pc[1] = "done"
    /\ call[1].tool = "list_users"
    /\ call[1].args = [facility_code |-> Str(""), designation_code |-> None, search |-> None,
                       page |-> 2, page_size |-> 10]
    /\ sent[1][1].json = Dict([page |-> 2, page_size |-> 10])

Min(a, b) == IF a <= b THEN a ELSE b

\* C9: get_report sends Accept: text/csv for format "csv" and Accept:
\* text/tab-separated-values for "tsv", and then returns {status_code, data: the
\* first 5000 characters of the body} without a JSON parse; for every other
\* format it sends the default JSON Accept header and returns the envelope of
\* format_response.
C9_GetReport ==
    \A p \in Procs :
        (Past(p) /\ call[p].tool = "get_report") =>
            LET f == call[p].args.format
                raw == f \in {Str("csv"), Str("tsv")}
            IN  /\ Len(sent[p]) = 1
                /\ sent[p][1].method = "GET"
                /\ sent[p][1].path = "/reports/" \o call[p].args.report_name.s
                /\ sent[p][1].headers["Accept"] =
                        IF f = Str("csv") THEN "text/csv"
                        ELSE IF f = Str("tsv") THEN "text/tab-separated-values"
                        ELSE "application/json"
                /\ outcome[p].kind = "return" =>
                        LET v == outcome[p].value
                            body == response[p].text
                        IN  IF raw
                            THEN /\ DOMAIN v = {"status_code", "data"}
                                 /\ v.status_code = response[p].status_code
                                 /\ v.data.head = body.head
                                 /\ TextLen(v.data) = Min(TextLen(body), ReportTextLimit)
                            ELSE v = format_response(response[p])

\* A csv report of 5001 characters comes back cut to 5000
C9_Witness ==
    /\ pc[1] = "done"
    /\ call[1].tool = "get_report"
    /\ call[1].args.format = Str("csv")
    /\ outcome[1].kind = "return"
    /\ TextLen(response[1].text) = ReportTextLimit + 1
    /\ TextLen(outcome[1].value.data) = ReportTextLimit
    /\ sent[1][1].headers["Accept"] = "text/csv"

\* C10: give_access_to_user ignores scope_type and scope_code: invocations that
\* agree on idp_user_code, entity_type and entity_code send the same request
\* (method, path, payload), whose scope is {scope_type: "default", scope_code: null}.
C10_ScopeIgnored ==
    \A p \in Procs :
        (Past(p) /\ call[p].tool = "give_access_to_user") =>
            /\ Len(sent[p]) = 1
            /\ sent[p][1].json.d.scope = Dict([scope_type |-> Str("default"), scope_code |-> None])
            /\ \A c \in Calls :
                (/\ c.tool = "give_access_to_user"
                 /\ c.args.idp_user_code = call[p].args.idp_user_code
                 /\ c.args.entity_type = call[p].args.entity_type
                 /\ c.args.entity_code = call[p].args.entity_code) =>
                    LET rq == Handler(c).request IN
                    /\ rq.method = sent[p][1].method
                    /\ rq.path = sent[p][1].path
                    /\ rq.json = sent[p][1].json

C10_Witness ==
    /\ pc[1] = "done"
    /\ call[1].tool = "give_access_to_user"
    /\ call[1].args.scope_type = Str("facility")
    /\ call[1].args.scope_code = Str("f1")
    /\ sent[1][1].json.d.scope = Dict([scope_type |-> Str("default"), scope_code |-> None])

=============================================================================
